---- MODULE Spec2Model ----
(***************************************************************************)
(* Model of the NVMe-MI sensor daemon code:                                *)
(*   src/src/NVMeMi.cpp      NVMeMi: endpoint set-up, worker thread, post, *)
(*                           miSubsystemHealthStatusPoll, miScanCtrl       *)
(*   src/unnamed/part_000    NVMeSubsystem: discovery, association, ctemp  *)
(*                           polling                                       *)
(* Threads are modelled by program counters; every shared-memory access    *)
(* of NVMeMi (workerStop, workerMtx, workerCv, workerIO) is its own step.  *)
(***************************************************************************)
EXTENDS Integers, Sequences, FiniteSets, TLC

\* ------------------------------------------------------------------ bounds
\* number of miScanCtrl / miSubsystemHealthStatusPoll calls issued in a run
MaxCalls == 2

\* cap of the Sensor's error counter
MaxErrCount == 3
\* controller ids are 1..MaxId; a scan returns at most MaxScan handles
MaxId == 2
MaxScan == 2
\* entries of the sc_entry array of a secondary controller list (scaled)
SecCap == 2
\* calls of NVMeSubsystem::start() in a run
MaxStarts == 2
\* an inventory path is made of at most MaxPieces pieces
MaxPieces == 7
\* owning references to the endpoint the foreground holds at the start
\* (NVMeSubsystem::nvmeIntf, and the copy kept by the polling chain)
MaxOwners == 2

\* --------------------------------------------------------------- constants
\* std::errc::no_such_device and std::errc::bad_message
ENODEV == 19
EBADMSG == 74
\* errno values a failing transport call leaves behind (EIO, ETIMEDOUT)
ErrnoVals == {5, 110}
\* the retry loop of the constructor logs and retries while i < 5
RetryLimit == 5
\* endpoint and network ids a SetupEndpoint reply may carry
EidVals == {8, 9, 10}
NidVals == {1, 2}
\* bytes a temperature field is drawn from, and bytes of the NSS status field
TempBytes == {0, 30, 127, 128, 129, 130, 255}
NssBytes == {0, 32, 31, 63}
\* the string "board", as characters
Board == <<"b", "o", "a", "r", "d">>
\* a double: std::numeric_limits<double>::quiet_NaN(), or a number
NaN == [nan |-> TRUE, v |-> 0]
Num(x) == [nan |-> FALSE, v |-> x]

VARIABLES
    \* ---- NVMeMi: worker bridge
    workerStop,   \* NVMeMi::workerStop
    mtx,          \* owner of NVMeMi::workerMtx: "none", "fg", "worker"
    workerIO,     \* handlers queued on NVMeMi::workerIO
    ioStopped,    \* workerIO is in the stopped state (run() returned)
    wpc,          \* position of the worker thread
    fpc,          \* position of the foreground thread inside NVMeMi
    cur,          \* id of the call the foreground thread is executing
    fgQueue,      \* handlers queued on the foreground io_context
    dpc,          \* position of the thread running ~NVMeMi
    workerErrno,  \* errno of the worker thread (thread local)
    fgErrno,      \* errno of the foreground thread (thread local)
    calls,        \* per call: what happened to it (history)
    nCalls,       \* number of calls issued
    epClosed      \* nvme_mi_close(nvmeEP) was called

VARIABLES
    \* ---- NVMeMi: constructor
    cpc,          \* position of the constructor
    nvmeRoot,     \* NVMeMi::nvmeRoot is non-null
    ctorI,        \* the retry loop's i
    failures,     \* SetupEndpoint calls that threw (history)
    eid, nid,     \* what SetupEndpoint replied
    nvmeEP,       \* NVMeMi::nvmeEP is non-null
    threw         \* which statement of the constructor threw, or "none"

VARIABLES
    \* ---- NVMeSubsystem: ctemp polling
    capability,   \* which NVMeIntf the subsystem holds: "basic" or "mi"
    started,      \* start() has armed the polling timer
    timerWaits,   \* pending async_wait handlers of ctempTimer
    fetches,      \* dataFetcher calls whose callback is outstanding
    crashed,      \* the process died in a handler
    ctemp,        \* the Sensor: functional, available, value, errCount
    lastOutcome,  \* what the last handler of the polling loop did (history)
    lastFetch,    \* the handler that ran last completed a fetch whose
                  \* transport call was "ok" or "failed"; else "none" (history)
    lastFire,     \* the last timer handler: the error code it was handed and
                  \* what readingStateGood() and sample() returned, if they
                  \* were called (history)
    sensorCalls,  \* the Sensor operations the last handler called, in order
                  \* (history)
    lastData      \* the data the last handler was handed, if it completed a
                  \* fetch; else nullptr (history)

VARIABLES
    \* ---- NVMeSubsystem: discovery
    discPc,       \* "idle", "scanning", "identifying", "done"
    starts,       \* calls of start() so far
    controllers,  \* NVMeSubsystem::controllers, by controller id
    scanLog,      \* per id, for the last scan: the handle its map entry was
                  \* built from (0: none inserted), start() calls made (history)
    identCtrl,    \* index of the handle adminIdentify was issued on
    lastScan,     \* the controller list of the last scan callback (history)
    lastIdent,    \* the response of the last identify callback (history)
    discOutcome,  \* how the last discovery callback ended (history)
    hadAssoc      \* some Controller held a non-empty association when the
                  \* last discovery callback was entered (history)

VARIABLES
    \* ---- NVMeMi: shared ownership (std::enable_shared_from_this)
    fgRefs,       \* owning references to the endpoint held on the foreground
                  \* thread outside any posted handler (NVMeSubsystem::nvmeIntf
                  \* and the like)
    destroying,   \* the closure workerIO.run() has invoked and not yet
                  \* destroyed, with its captured self (0: none)
    dtorThread    \* the thread that dropped the last owning reference and so
                  \* runs ~NVMeMi: "none", "fg", "worker"

VARIABLES
    \* ---- NVMeSubsystem: sensor name
    path,         \* NVMeSubsystem::path, a sequence of characters
    sensorName    \* what createSensorNameFromPath(path) returned, once it
                  \* has been called: <<r>> with r an optional string

bridgeVars == <<workerStop, mtx, workerIO, ioStopped, wpc, fpc, cur, fgQueue,
                dpc, workerErrno, fgErrno, calls, nCalls, epClosed>>

ctorVars == <<cpc, nvmeRoot, ctorI, failures, eid, nid, nvmeEP, threw>>

pollVars == <<capability, started, timerWaits, fetches, crashed, ctemp,
              lastOutcome, lastFetch, lastFire, sensorCalls, lastData>>

discVars == <<discPc, starts, controllers, scanLog, identCtrl, lastScan,
              lastIdent, discOutcome, hadAssoc>>

nameVars == <<path, sensorName>>

lifeVars == <<fgRefs, destroying, dtorThread>>

vars == <<bridgeVars, ctorVars, pollVars, discVars, nameVars, lifeVars>>

CallIds == 1..MaxCalls

NoCall == [kind |-> "none", st |-> "none", enqStop |-> FALSE, rcErrno |-> 0,
           tcThread |-> "none", tcAt |-> "none", cbCount |-> 0, cbEc |-> 0, cbData |-> FALSE,
           cbThread |-> "none", cbInline |-> FALSE]

\* ------------------------------------------------------------ NVMeMi state
\* state of the bridge once the constructor has returned: the worker thread
\* is about to enter its loop
BridgeState(w) ==
    /\ workerStop = FALSE
    /\ mtx = "none"
    /\ workerIO = <<>>
    /\ ioStopped = FALSE
    /\ wpc = w
    /\ fpc = "idle"
    /\ cur = 0
    /\ fgQueue = <<>>
    /\ dpc = "idle"
    /\ workerErrno = 0
    /\ fgErrno = 0
    /\ calls = [c \in CallIds |-> NoCall]
    /\ nCalls = 0
    /\ epClosed = FALSE

BridgeInit == BridgeState("run")

\* io.post(handler) on the foreground io_context: queued, never run inline
IoPost(q, id, h) == Append(q, [id |-> id, h |-> h])

\* std::condition_variable::notify_all: only a thread blocked in wait is woken
NotifyAll(pc) == IF pc = "wait" THEN "woken" ELSE pc

\* ------------------------------------------------- NVMeMi: foreground side
\* catch (const std::runtime_error&) of the two API methods: the callback is
\* posted to the foreground io_context with no_such_device
CatchStopped(id) ==
    /\ fgQueue' = IoPost(fgQueue, id, "nodev")
    /\ calls' = [calls EXCEPT ![id].st = "rejected"]
    /\ fpc' = "idle"
    /\ cur' = 0

\* entry of miSubsystemHealthStatusPoll / miScanCtrl up to the call of post
ApiEntry(kind) ==
    /\ fpc = "idle"
    /\ dpc # "done"
    /\ nCalls < MaxCalls
    /\ nCalls' = nCalls + 1
    /\ LET id == nCalls + 1 IN
       IF ~nvmeEP
       THEN /\ fgQueue' = IoPost(fgQueue, id, "nodev")
            /\ calls' = [calls EXCEPT ![id].kind = kind, ![id].st = "rejected"]
            /\ UNCHANGED <<fpc, cur>>
       ELSE /\ calls' = [calls EXCEPT ![id].kind = kind, ![id].st = "posting"]
            /\ fpc' = "post_check1"
            /\ cur' = id
            /\ UNCHANGED fgQueue
    /\ UNCHANGED <<workerStop, mtx, workerIO, ioStopped, wpc, dpc, workerErrno,
                   fgErrno, epClosed>>
    /\ UNCHANGED <<ctorVars, pollVars, discVars, nameVars, lifeVars>>

MiSubsystemHealthStatusPoll == ApiEntry("poll")

MiScanCtrl == ApiEntry("scan")

\* post: if (!workerStop), read without the mutex
PostCheck1 ==
    /\ fpc = "post_check1"
    /\ IF workerStop
       THEN CatchStopped(cur)
       ELSE /\ fpc' = "post_lock"
            /\ UNCHANGED <<cur, fgQueue, calls>>
    /\ UNCHANGED <<workerStop, mtx, workerIO, ioStopped, wpc, dpc, workerErrno,
                   fgErrno, nCalls, epClosed>>
    /\ UNCHANGED <<ctorVars, pollVars, discVars, nameVars, lifeVars>>

\* post: std::unique_lock<std::mutex> lock(workerMtx)
PostLock ==
    /\ fpc = "post_lock"
    /\ mtx = "none"
    /\ mtx' = "fg"
    /\ fpc' = "post_check2"
    /\ UNCHANGED <<workerStop, workerIO, ioStopped, wpc, cur, fgQueue, dpc,
                   workerErrno, fgErrno, calls, nCalls, epClosed>>
    /\ UNCHANGED <<ctorVars, pollVars, discVars, nameVars, lifeVars>>

\* post: the second if (!workerStop), read with the mutex held; when it fails
\* the lock's scope ends and the runtime_error is thrown and caught
PostCheck2 ==
    /\ fpc = "post_check2"
    /\ IF workerStop
       THEN /\ mtx' = "none"
            /\ CatchStopped(cur)
       ELSE /\ fpc' = "post_enqueue"
            /\ UNCHANGED <<mtx, cur, fgQueue, calls>>
    /\ UNCHANGED <<workerStop, workerIO, ioStopped, wpc, dpc, workerErrno,
                   fgErrno, nCalls, epClosed>>
    /\ UNCHANGED <<ctorVars, pollVars, discVars, nameVars, lifeVars>>

\* post: workerIO.post(func); workerCv.notify_all(); return (the lock is
\* released). The mutex is held throughout, so no waiter can come or go
\* between the three.
PostEnqueue ==
    /\ fpc = "post_enqueue"
    /\ workerIO' = Append(workerIO, cur)
    /\ calls' = [calls EXCEPT ![cur].st = "queued", ![cur].enqStop = workerStop]
    /\ wpc' = NotifyAll(wpc)
    /\ mtx' = "none"
    /\ fpc' = "idle"
    /\ cur' = 0
    /\ UNCHANGED <<workerStop, ioStopped, fgQueue, dpc, workerErrno, fgErrno,
                   nCalls, epClosed>>
    /\ UNCHANGED <<ctorVars, pollVars, discVars, nameVars, lifeVars>>

\* error code the posted handler h passes to the callback when it runs on
\* the foreground thread; the poll failure handler reads errno there
HandlerEc(h) ==
    CASE h = "nodev" -> ENODEV
      [] h = "pollfail" -> fgErrno
      [] h = "scanfail" -> EBADMSG
      [] OTHER -> 0

\* owning references to the endpoint: fg held on the foreground, the self of
\* the closure under construction in post (c), of each closure queued on
\* workerIO (wq) and of the closure run and not yet destroyed (d), and those
\* held through cb by each handler queued on the foreground io_context (fq)
RefCount(fg, wq, c, d, fq) ==
    fg + Len(wq) + (IF c # 0 THEN 1 ELSE 0) + (IF d # 0 THEN 1 ELSE 0)
       + Len(fq)

\* the foreground io_context runs one posted handler, which calls cb, and
\* destroys it with its cb: if that drops the last owning reference to the
\* endpoint, ~NVMeMi runs on the foreground thread
FgRun ==
    /\ fpc = "idle"
    /\ fgQueue # <<>>
    /\ LET it == Head(fgQueue) IN
       calls' = [calls EXCEPT ![it.id].cbCount = @ + 1,
                              ![it.id].cbEc = HandlerEc(it.h),
                              ![it.id].cbData = it.h \in {"pollok", "scanok"},
                              ![it.id].cbThread = "fg"]
    /\ fgQueue' = Tail(fgQueue)
    /\ dtorThread' =
         IF RefCount(fgRefs, workerIO, cur, destroying, Tail(fgQueue)) = 0
         THEN "fg" ELSE dtorThread
    /\ UNCHANGED <<workerStop, mtx, workerIO, ioStopped, wpc, fpc, cur, dpc,
                   workerErrno, fgErrno, nCalls, epClosed>>
    /\ UNCHANGED <<fgRefs, destroying>>
    /\ UNCHANGED <<ctorVars, pollVars, discVars, nameVars>>

\* anything else the foreground thread runs between two handlers may fail a
\* system call and leave its errno behind
FgOther ==
    /\ fpc = "idle"
    /\ \E e \in ErrnoVals : fgErrno' = e /\ e # fgErrno
    /\ UNCHANGED <<workerStop, mtx, workerIO, ioStopped, wpc, fpc, cur, fgQueue,
                   dpc, workerErrno, calls, nCalls, epClosed>>
    /\ UNCHANGED <<ctorVars, pollVars, discVars, nameVars, lifeVars>>

\* ----------------------------------------------------- NVMeMi: worker side
\* a closure that calls cb itself, on the worker thread, instead of posting
\* the outcome to the foreground io_context
ExecHandler_CbOnWorker(id) ==
    \E rc \in {0} \cup ErrnoVals :
        /\ workerErrno' = IF rc = 0 THEN workerErrno ELSE rc
        /\ calls' = [calls EXCEPT ![id].st = "executed",
                                  ![id].tcThread = "worker",
                                  ![id].tcAt = wpc,
                                  ![id].rcErrno = rc,
                                  ![id].cbCount = @ + 1,
                                  ![id].cbEc = rc,
                                  ![id].cbData = (rc = 0),
                                  ![id].cbThread = "worker"]
        /\ UNCHANGED fgQueue

\* the closure posted by miSubsystemHealthStatusPoll / miScanCtrl, run by
\* workerIO.run() on the worker thread: the blocking transport call, then the
\* outcome is posted to the foreground io_context
ExecHandler(id) ==
    \E rc \in {0} \cup ErrnoVals :
        /\ workerErrno' = IF rc = 0 THEN workerErrno ELSE rc
        /\ calls' = [calls EXCEPT ![id].st = "executed",
                                  ![id].tcThread = "worker",
                                  ![id].tcAt = wpc,
                                  ![id].rcErrno = rc]
        /\ fgQueue' = IoPost(fgQueue, id,
                             IF calls[id].kind = "poll"
                             THEN (IF rc = 0 THEN "pollok" ELSE "pollfail")
                             ELSE (IF rc = 0 THEN "scanok" ELSE "scanfail"))

\* io.run() at the top of the loop: one queued handler is run
WorkerRunOne ==
    /\ wpc = "run"
    /\ ~ioStopped
    /\ workerIO # <<>>
    /\ ExecHandler(Head(workerIO))
    /\ workerIO' = Tail(workerIO)
    /\ UNCHANGED <<workerStop, mtx, ioStopped, wpc, fpc, cur, dpc, fgErrno,
                   nCalls, epClosed>>
    /\ UNCHANGED <<ctorVars, pollVars, discVars, nameVars, lifeVars>>

\* io.run() returns: out of work, the io_context is left stopped
WorkerRunReturn ==
    /\ wpc = "run"
    /\ (ioStopped \/ workerIO = <<>>)
    /\ ioStopped' = TRUE
    /\ wpc' = "restart"
    /\ UNCHANGED <<workerStop, mtx, workerIO, fpc, cur, fgQueue, dpc,
                   workerErrno, fgErrno, calls, nCalls, epClosed>>
    /\ UNCHANGED <<ctorVars, pollVars, discVars, nameVars, lifeVars>>

\* io.restart()
WorkerRestart ==
    /\ wpc = "restart"
    /\ ioStopped' = FALSE
    /\ wpc' = "lock"
    /\ UNCHANGED <<workerStop, mtx, workerIO, fpc, cur, fgQueue, dpc,
                   workerErrno, fgErrno, calls, nCalls, epClosed>>
    /\ UNCHANGED <<ctorVars, pollVars, discVars, nameVars, lifeVars>>

\* std::unique_lock lock(mtx); cv.wait(lock): the mutex is taken and at once
\* released by wait, which blocks the thread; there is no predicate
WorkerWait ==
    /\ wpc = "lock"
    /\ mtx = "none"
    /\ wpc' = "wait"
    /\ UNCHANGED <<workerStop, mtx, workerIO, ioStopped, fpc, cur, fgQueue, dpc,
                   workerErrno, fgErrno, calls, nCalls, epClosed>>
    /\ UNCHANGED <<ctorVars, pollVars, discVars, nameVars, lifeVars>>

\* cv.wait may return without any notify (a spurious wake-up)
SpuriousWake ==
    /\ wpc = "wait"
    /\ wpc' = "woken"
    /\ UNCHANGED <<workerStop, mtx, workerIO, ioStopped, fpc, cur, fgQueue, dpc,
                   workerErrno, fgErrno, calls, nCalls, epClosed>>
    /\ UNCHANGED <<ctorVars, pollVars, discVars, nameVars, lifeVars>>

\* cv.wait returns: the woken thread takes the mutex again
WorkerWake ==
    /\ wpc = "woken"
    /\ mtx = "none"
    /\ mtx' = "worker"
    /\ wpc' = "check"
    /\ UNCHANGED <<workerStop, workerIO, ioStopped, fpc, cur, fgQueue, dpc,
                   workerErrno, fgErrno, calls, nCalls, epClosed>>
    /\ UNCHANGED <<ctorVars, pollVars, discVars, nameVars, lifeVars>>

\* a worker that saw stop and left the loop without the last io.run()
WorkerCheckStop_NoDrain ==
    /\ wpc = "check"
    /\ mtx' = "none"
    /\ wpc' = IF workerStop THEN "exited" ELSE "run"
    /\ UNCHANGED <<workerStop, workerIO, ioStopped, fpc, cur, fgQueue, dpc,
                   workerErrno, fgErrno, calls, nCalls, epClosed>>
    /\ UNCHANGED <<ctorVars, pollVars, discVars, nameVars, lifeVars>>

\* if (stop): read with the mutex held; when clear the lock's scope ends and
\* the loop goes round
WorkerCheckStop ==
    /\ wpc = "check"
    /\ IF workerStop
       THEN /\ wpc' = "drain"
            /\ UNCHANGED mtx
       ELSE /\ wpc' = "run"
            /\ mtx' = "none"
    /\ UNCHANGED <<workerStop, workerIO, ioStopped, fpc, cur, fgQueue, dpc,
                   workerErrno, fgErrno, calls, nCalls, epClosed>>
    /\ UNCHANGED <<ctorVars, pollVars, discVars, nameVars, lifeVars>>

\* the last io.run(), "exhaust all tasks and exit", with the mutex held
WorkerDrainOne ==
    /\ wpc = "drain"
    /\ ~ioStopped
    /\ workerIO # <<>>
    /\ ExecHandler(Head(workerIO))
    /\ workerIO' = Tail(workerIO)
    /\ UNCHANGED <<workerStop, mtx, ioStopped, wpc, fpc, cur, dpc, fgErrno,
                   nCalls, epClosed>>
    /\ UNCHANGED <<ctorVars, pollVars, discVars, nameVars, lifeVars>>

\* the last io.run() returns; break; the lock's scope ends; the thread ends
WorkerExit ==
    /\ wpc = "drain"
    /\ (ioStopped \/ workerIO = <<>>)
    /\ ioStopped' = TRUE
    /\ mtx' = "none"
    /\ wpc' = "exited"
    /\ UNCHANGED <<workerStop, workerIO, fpc, cur, fgQueue, dpc, workerErrno,
                   fgErrno, calls, nCalls, epClosed>>
    /\ UNCHANGED <<ctorVars, pollVars, discVars, nameVars, lifeVars>>

\* ------------------------------------------------------- NVMeMi: destructor
\* workerStop = true, written without the mutex
DtorSetStop ==
    /\ dpc = "idle"
    /\ workerStop' = TRUE
    /\ dpc' = "notify"
    /\ UNCHANGED <<mtx, workerIO, ioStopped, wpc, fpc, cur, fgQueue,
                   workerErrno, fgErrno, calls, nCalls, epClosed>>
    /\ UNCHANGED <<ctorVars, pollVars, discVars, nameVars, lifeVars>>

\* { std::unique_lock lock(workerMtx); workerCv.notify_all(); }
DtorNotify ==
    /\ dpc = "notify"
    /\ mtx = "none"
    /\ wpc' = NotifyAll(wpc)
    /\ dpc' = "join"
    /\ UNCHANGED <<workerStop, mtx, workerIO, ioStopped, fpc, cur, fgQueue,
                   workerErrno, fgErrno, calls, nCalls, epClosed>>
    /\ UNCHANGED <<ctorVars, pollVars, discVars, nameVars, lifeVars>>

\* thread.join() returns once the worker thread has ended
DtorJoin ==
    /\ dpc = "join"
    /\ wpc = "exited"
    /\ dpc' = "close"
    /\ UNCHANGED <<workerStop, mtx, workerIO, ioStopped, wpc, fpc, cur, fgQueue,
                   workerErrno, fgErrno, calls, nCalls, epClosed>>
    /\ UNCHANGED <<ctorVars, pollVars, discVars, nameVars, lifeVars>>

\* if (nvmeEP) nvme_mi_close(nvmeEP)
DtorClose ==
    /\ dpc = "close"
    /\ epClosed' = nvmeEP
    /\ dpc' = "done"
    /\ UNCHANGED <<workerStop, mtx, workerIO, ioStopped, wpc, fpc, cur, fgQueue,
                   workerErrno, fgErrno, calls, nCalls>>
    /\ UNCHANGED <<ctorVars, pollVars, discVars, nameVars, lifeVars>>

\* ------------------------------------------------------ NVMeMi: the bridge
CtorDone ==
    /\ cpc = "constructed"
    /\ nvmeRoot = TRUE
    /\ ctorI = 0
    /\ failures = 0
    /\ eid = 0
    /\ nid = 0
    /\ nvmeEP = TRUE
    /\ threw = "none"

\* no timer handler has run yet
NoFire == [errorCode |-> "none", good |-> <<>>, smp |-> <<>>]

\* the polling loop before start()
PollIdle(cap) ==
    /\ capability = cap
    /\ started = FALSE
    /\ timerWaits = 0
    /\ fetches = 0
    /\ crashed = FALSE
    /\ ctemp = [present |-> TRUE, functional |-> TRUE, available |-> TRUE,
                value |-> NaN, errCount |-> 0]
    /\ lastOutcome = "none"
    /\ lastFetch = "none"
    /\ lastFire = NoFire
    /\ sensorCalls = <<>>
    /\ lastData = <<>>

Ids == 1..MaxId

NoController == [present |-> FALSE, assoc |-> <<>>]

NoScanLog == [c \in Ids |-> [inserted |-> 0, started |-> 0]]

NoIdent == [ec |-> FALSE, sizeOk |-> FALSE, num |-> 0, pcid |-> 0, scid |-> <<>>]

\* the subsystem before start(): no Controller yet
DiscIdle ==
    /\ discPc = "idle"
    /\ starts = 0
    /\ controllers = [c \in Ids |-> NoController]
    /\ scanLog = NoScanLog
    /\ identCtrl = 0
    /\ lastScan = <<>>
    /\ lastIdent = NoIdent
    /\ discOutcome = "none"
    /\ hadAssoc = FALSE

\* the endpoint is owned by the foreground, no closure is being destroyed
LifeIdle ==
    /\ fgRefs = MaxOwners
    /\ destroying = 0
    /\ dtorThread = "none"

\* the name has been derived from a well-formed inventory path
NameDone ==
    /\ path = <<"/">> \o Board \o <<"/", "p", "/", "d">>
    /\ sensorName = << <<(<<"p", "_", "d">>)>> >>

Init ==
    BridgeInit /\ CtorDone /\ PollIdle("mi") /\ DiscIdle /\ NameDone /\ LifeIdle

ForegroundNext ==
    \/ MiSubsystemHealthStatusPoll
    \/ MiScanCtrl
    \/ PostCheck1
    \/ PostLock
    \/ PostCheck2
    \/ PostEnqueue
    \/ FgRun
    \/ FgOther

WorkerLoop ==
    \/ WorkerRunOne
    \/ WorkerRunReturn
    \/ WorkerRestart
    \/ WorkerWait
    \/ WorkerWake
    \/ WorkerCheckStop

WorkerNext ==
    \/ WorkerLoop
    \/ WorkerDrainOne
    \/ WorkerExit

DtorNext ==
    \/ DtorSetStop
    \/ DtorNotify
    \/ DtorJoin
    \/ DtorClose

Next == ForegroundNext \/ WorkerNext \/ SpuriousWake \/ DtorNext

Spec == Init /\ [][Next]_vars

\* Every thread that can take a step eventually does: the worker thread, the
\* foreground thread inside post, the foreground io_context running posted
\* handlers, and the destructor once entered. A thread that asks for the
\* mutex is not starved of it (strong fairness on the steps that lock).
\* Nothing obliges the program to issue another call, to destroy the object,
\* or cv.wait to wake spuriously.
WorkerFair ==
    /\ WF_vars(WorkerRunOne \/ WorkerRunReturn \/ WorkerRestart \/ WorkerCheckStop)
    /\ SF_vars(WorkerWait)
    /\ SF_vars(WorkerWake)

ForegroundFair ==
    /\ WF_vars(PostCheck1 \/ PostCheck2 \/ PostEnqueue)
    /\ SF_vars(PostLock)
    /\ WF_vars(FgRun)

FairSpec ==
    /\ Spec
    /\ WorkerFair
    /\ WF_vars(WorkerDrainOne \/ WorkerExit)
    /\ ForegroundFair
    /\ SF_vars(DtorNotify)
    /\ WF_vars(DtorJoin \/ DtorClose)

\* The endpoint while nobody destroys it: the foreground and the worker only.
AliveNext == ForegroundNext \/ WorkerLoop \/ SpuriousWake

AliveSpec == Init /\ [][AliveNext]_vars

AliveFairSpec == AliveSpec /\ WorkerFair /\ ForegroundFair

\* ---------------------------------------------------- NVMeMi: constructor
CtorInit ==
    /\ BridgeState("none")
    /\ PollIdle("mi")
    /\ DiscIdle
    /\ NameDone
    /\ LifeIdle
    /\ cpc = "checkRoot"
    /\ nvmeRoot \in BOOLEAN
    /\ ctorI = 0
    /\ failures = 0
    /\ eid = 0
    /\ nid = 0
    /\ nvmeEP = FALSE
    /\ threw = "none"

\* if (!nvmeRoot) throw; int i = 0
CtorCheckRoot ==
    /\ cpc = "checkRoot"
    /\ IF nvmeRoot
       THEN cpc' = "setup" /\ UNCHANGED threw
       ELSE cpc' = "threw" /\ threw' = "root"
    /\ ctorI' = 0
    /\ UNCHANGED <<nvmeRoot, failures, eid, nid, nvmeEP>>
    /\ UNCHANGED <<bridgeVars, pollVars, discVars, nameVars, lifeVars>>

\* the try block: SetupEndpoint replies; eid, nid, mctpPath are read; break
SetupEndpointOk ==
    /\ cpc = "setup"
    /\ \E e \in EidVals, n \in NidVals : eid' = e /\ nid' = n
    /\ cpc' = "open"
    /\ UNCHANGED <<nvmeRoot, ctorI, failures, nvmeEP, threw>>
    /\ UNCHANGED <<bridgeVars, pollVars, discVars, nameVars, lifeVars>>

\* a catch block that gives up one failure earlier
SetupEndpointFail_OneLess ==
    /\ cpc = "setup"
    /\ failures' = failures + 1
    /\ IF ctorI < RetryLimit - 1
       THEN ctorI' = ctorI + 1 /\ UNCHANGED <<cpc, threw>>
       ELSE cpc' = "threw" /\ threw' = "setup" /\ UNCHANGED ctorI
    /\ UNCHANGED <<nvmeRoot, eid, nid, nvmeEP>>
    /\ UNCHANGED <<bridgeVars, pollVars, discVars, nameVars, lifeVars>>

\* the catch block: msg.call() threw; if (i < 5) log, and the loop's i++
\* runs; else throw std::runtime_error
SetupEndpointFail ==
    /\ cpc = "setup"
    /\ failures' = failures + 1
    /\ IF ctorI < RetryLimit
       THEN ctorI' = ctorI + 1 /\ UNCHANGED <<cpc, threw>>
       ELSE cpc' = "threw" /\ threw' = "setup" /\ UNCHANGED ctorI
    /\ UNCHANGED <<nvmeRoot, eid, nid, nvmeEP>>
    /\ UNCHANGED <<bridgeVars, pollVars, discVars, nameVars, lifeVars>>

\* nvmeEP = nvme_mi_open_mctp(nvmeRoot, nid, eid); if (!nvmeEP) throw
OpenMctp ==
    /\ cpc = "open"
    /\ \E ok \in BOOLEAN :
          /\ nvmeEP' = ok
          /\ IF ok
             THEN cpc' = "startWorker" /\ UNCHANGED threw
             ELSE cpc' = "threw" /\ threw' = "open"
    /\ UNCHANGED <<nvmeRoot, ctorI, failures, eid, nid>>
    /\ UNCHANGED <<bridgeVars, pollVars, discVars, nameVars, lifeVars>>

\* workerStop = false; thread = std::thread(...): the worker enters its loop
StartWorker ==
    /\ cpc = "startWorker"
    /\ workerStop' = FALSE
    /\ wpc' = "run"
    /\ cpc' = "constructed"
    /\ UNCHANGED <<mtx, workerIO, ioStopped, fpc, cur, fgQueue, dpc,
                   workerErrno, fgErrno, calls, nCalls, epClosed>>
    /\ UNCHANGED <<nvmeRoot, ctorI, failures, eid, nid, nvmeEP, threw>>
    /\ UNCHANGED <<pollVars, discVars, nameVars, lifeVars>>

CtorNext ==
    \/ CtorCheckRoot
    \/ SetupEndpointOk
    \/ SetupEndpointFail
    \/ OpenMctp
    \/ StartWorker

CtorSpec == CtorInit /\ [][CtorNext]_vars

\* ------------------------------------------------ NVMeSubsystem: ctemp poll
\* a pointer is the empty sequence (nullptr) or holds what it points to; an
\* optional is the empty sequence (nullopt) or holds its value
Null == <<>>
PtrTo(x) == <<x>>
None == <<>>
Some(x) == <<x>>

\* the value of a byte read as int8_t
ToInt8(b) == IF b >= 128 THEN b - 256 ELSE b

\* a reading that knows the sentinel 0x80 only
GetTemperatureReading_OneSentinel(reading) ==
    IF reading = ToInt8(128) THEN NaN ELSE Num(reading)

\* getTemperatureReading(int8_t reading)
GetTemperatureReading(reading) ==
    IF reading = ToInt8(128) \/ reading = ToInt8(129) THEN NaN ELSE Num(reading)

\* dataParser of the NVMeBasicIntf branch of start()
BasicParser(status) ==
    IF status = Null
    THEN None
    ELSE Some(GetTemperatureReading(ToInt8(status[1].Temp)))

\* dataParser of the NVMeMiIntf branch of start(): bool df = status->nss & 0x20
MiParser(status) ==
    LET df == (status[1].nss \div 32) % 2 = 1 IN
    IF ~df THEN None ELSE Some(GetTemperatureReading(ToInt8(status[1].ctemp)))

DataParser(data) ==
    IF capability = "basic" THEN BasicParser(data) ELSE MiParser(data)

BasicStatuses == [Temp : TempBytes]
MiStatuses == [nss : NssBytes, ctemp : TempBytes]

\* what getStatus may hand the callback with no error
FetchData == {Null} \cup {PtrTo(x) : x \in BasicStatuses}

\* the Sensor facade, as far as the loop calls it
MarkAvailable(s, b) == [s EXCEPT !.available = b]
MarkFunctional(s, b) == [s EXCEPT !.functional = b]
UpdateValue(s, v) == [s EXCEPT !.value = v]
IncrementError(s) == [s EXCEPT !.errCount = @ + 1]

\* NVMeSubsystem::pollCtemp: expires_from_now(1 s) and async_wait; called
\* from a handler of the loop, when no wait is pending
PollCtempArm == timerWaits' = 1

\* the tail of start(): the fetcher and parser are chosen, the timer is armed
StartPolling ==
    /\ ~started
    /\ ~crashed
    /\ started' = TRUE
    /\ PollCtempArm
    /\ UNCHANGED <<capability, fetches, crashed, ctemp, lastOutcome, lastFetch,
                   lastFire, sensorCalls, lastData>>
    /\ UNCHANGED <<bridgeVars, ctorVars, discVars, nameVars, lifeVars>>

\* a timer handler that fetches whatever sample() returns
DetailPollCtemp_IgnoreSample(errorCode, good, smp) ==
    /\ timerWaits > 0
    /\ ~crashed
    /\ IF errorCode = "aborted"
       THEN /\ timerWaits' = timerWaits - 1
            /\ lastOutcome' = "aborted"
            /\ lastFire' = [NoFire EXCEPT !.errorCode = errorCode]
            /\ sensorCalls' = <<>>
            /\ UNCHANGED <<ctemp, fetches>>
       ELSE IF errorCode # "ok"
       THEN /\ PollCtempArm
            /\ lastOutcome' = "timerError"
            /\ lastFire' = [NoFire EXCEPT !.errorCode = errorCode]
            /\ sensorCalls' = <<>>
            /\ UNCHANGED <<ctemp, fetches>>
       ELSE IF ~ctemp.present
       THEN /\ PollCtempArm
            /\ lastOutcome' = "noSensor"
            /\ lastFire' = [NoFire EXCEPT !.errorCode = errorCode]
            /\ sensorCalls' = <<>>
            /\ UNCHANGED <<ctemp, fetches>>
       ELSE IF ~good
       THEN /\ ctemp' = UpdateValue(MarkAvailable(ctemp, FALSE), NaN)
            /\ PollCtempArm
            /\ lastOutcome' = "notGood"
            /\ lastFire' = [errorCode |-> errorCode, good |-> Some(good),
                            smp |-> None]
            /\ sensorCalls' = <<"readingStateGood", "markAvailable", "updateValue">>
            /\ UNCHANGED fetches
       ELSE /\ timerWaits' = timerWaits - 1
            /\ fetches' = fetches + 1
            /\ lastOutcome' = "fetchIssued"
            /\ lastFire' = [errorCode |-> errorCode, good |-> Some(good),
                            smp |-> Some(smp)]
            /\ sensorCalls' = <<"readingStateGood", "sample">>
            /\ UNCHANGED ctemp
    /\ lastFetch' = "none"
    /\ lastData' = Null
    /\ UNCHANGED <<capability, started, crashed>>
    /\ UNCHANGED <<bridgeVars, ctorVars, discVars, nameVars, lifeVars>>

\* Detail::pollCtemp, the handler of the timer: errorCode is what the timer
\* delivers, good and smp what readingStateGood() and sample() return
DetailPollCtemp(errorCode, good, smp) ==
    /\ timerWaits > 0
    /\ ~crashed
    /\ IF errorCode = "aborted"
       THEN /\ timerWaits' = timerWaits - 1
            /\ lastOutcome' = "aborted"
            /\ lastFire' = [NoFire EXCEPT !.errorCode = errorCode]
            /\ sensorCalls' = <<>>
            /\ UNCHANGED <<ctemp, fetches>>
       ELSE IF errorCode # "ok"
       THEN /\ PollCtempArm
            /\ lastOutcome' = "timerError"
            /\ lastFire' = [NoFire EXCEPT !.errorCode = errorCode]
            /\ sensorCalls' = <<>>
            /\ UNCHANGED <<ctemp, fetches>>
       ELSE IF ~ctemp.present
       THEN /\ PollCtempArm
            /\ lastOutcome' = "noSensor"
            /\ lastFire' = [NoFire EXCEPT !.errorCode = errorCode]
            /\ sensorCalls' = <<>>
            /\ UNCHANGED <<ctemp, fetches>>
       ELSE IF ~good
       THEN /\ ctemp' = UpdateValue(MarkAvailable(ctemp, FALSE), NaN)
            /\ PollCtempArm
            /\ lastOutcome' = "notGood"
            /\ lastFire' = [errorCode |-> errorCode, good |-> Some(good),
                            smp |-> None]
            /\ sensorCalls' = <<"readingStateGood", "markAvailable", "updateValue">>
            /\ UNCHANGED fetches
       ELSE IF ~smp
       THEN /\ PollCtempArm
            /\ lastOutcome' = "deferred"
            /\ lastFire' = [errorCode |-> errorCode, good |-> Some(good),
                            smp |-> Some(smp)]
            /\ sensorCalls' = <<"readingStateGood", "sample">>
            /\ UNCHANGED <<ctemp, fetches>>
       ELSE /\ timerWaits' = timerWaits - 1
            /\ fetches' = fetches + 1
            /\ lastOutcome' = "fetchIssued"
            /\ lastFire' = [errorCode |-> errorCode, good |-> Some(good),
                            smp |-> Some(smp)]
            /\ sensorCalls' = <<"readingStateGood", "sample">>
            /\ UNCHANGED ctemp
    /\ lastFetch' = "none"
    /\ lastData' = Null
    /\ UNCHANGED <<capability, started, crashed>>
    /\ UNCHANGED <<bridgeVars, ctorVars, discVars, nameVars, lifeVars>>

TimerFire ==
    \E errorCode \in {"ok", "aborted", "error"}, good \in BOOLEAN, smp \in BOOLEAN :
        DetailPollCtemp(errorCode, good, smp)

\* an updateCtemp that also marks the Sensor non-functional when the parser
\* yields no value
UpdateCtemp_NoValueMarks(error, data) ==
    /\ fetches > 0
    /\ ~crashed
    /\ fetches' = fetches - 1
    /\ lastData' = data
    /\ IF error
       THEN /\ ctemp' = MarkFunctional(ctemp, FALSE)
            /\ sensorCalls' = <<"markFunctional">>
            /\ PollCtempArm
            /\ lastOutcome' = "fetchError"
       ELSE LET value == DataParser(data) IN
            IF value = None
            THEN /\ ctemp.errCount < MaxErrCount
                 /\ ctemp' = MarkFunctional(IncrementError(ctemp), FALSE)
                 /\ sensorCalls' = <<"incrementError", "markFunctional">>
                 /\ PollCtempArm
                 /\ lastOutcome' = "noValue"
            ELSE /\ ctemp' = UpdateValue(ctemp, value[1])
                 /\ sensorCalls' = <<"updateValue">>
                 /\ PollCtempArm
                 /\ lastOutcome' = "value"
    /\ UNCHANGED <<capability, started, crashed, lastFire>>
    /\ UNCHANGED <<bridgeVars, ctorVars, discVars, nameVars, lifeVars>>

\* Detail::updateCtemp, the callback of the fetch
UpdateCtemp(error, data) ==
    /\ fetches > 0
    /\ ~crashed
    /\ fetches' = fetches - 1
    /\ lastData' = data
    /\ IF error
       THEN /\ ctemp' = MarkFunctional(ctemp, FALSE)
            /\ sensorCalls' = <<"markFunctional">>
            /\ PollCtempArm
            /\ lastOutcome' = "fetchError"
       ELSE LET value == DataParser(data) IN
            IF value = None
            THEN /\ ctemp.errCount < MaxErrCount
                 /\ ctemp' = IncrementError(ctemp)
                 /\ sensorCalls' = <<"incrementError">>
                 /\ PollCtempArm
                 /\ lastOutcome' = "noValue"
            ELSE /\ ctemp' = UpdateValue(ctemp, value[1])
                 /\ sensorCalls' = <<"updateValue">>
                 /\ PollCtempArm
                 /\ lastOutcome' = "value"
    /\ UNCHANGED <<capability, started, crashed, lastFire>>
    /\ UNCHANGED <<bridgeVars, ctorVars, discVars, nameVars, lifeVars>>

\* the management parser reads status->nss without a null check: handed a
\* null pointer with no error it reads through it, and the process dies or
\* goes on with whatever bytes it found
UpdateCtempNullDeref ==
    \/ /\ fetches > 0
       /\ ~crashed
       /\ crashed' = TRUE
       /\ lastOutcome' = "nullDeref"
       /\ lastData' = Null
       /\ sensorCalls' = <<>>
       /\ UNCHANGED <<capability, started, timerWaits, fetches, ctemp, lastFire>>
       /\ UNCHANGED <<bridgeVars, ctorVars, discVars, nameVars, lifeVars>>
    \/ \E g \in MiStatuses : UpdateCtemp(FALSE, PtrTo(g))

\* what miSubsystemHealthStatusPoll hands the callback when the transport
\* call failed, was rejected by post or had no endpoint: the error code made
\* from the errno the foreground thread holds when the handler runs (0 is no
\* error), or no_such_device
FailureCodes == {0} \cup ErrnoVals \cup {ENODEV}

\* the fetch completes and its callback, updateCtemp, runs. getStatus hands
\* over an error or a status pointer. miSubsystemHealthStatusPoll hands over
\* &ss_health with no error when the transport call succeeded, else nullptr
\* with one of FailureCodes
FetchComplete ==
    \/ /\ capability = "basic"
       /\ \/ lastFetch' = "failed" /\ UpdateCtemp(TRUE, Null)
          \/ lastFetch' = "ok" /\ \E data \in FetchData : UpdateCtemp(FALSE, data)
    \/ /\ capability = "mi"
       /\ \/ lastFetch' = "ok" /\ \E x \in MiStatuses : UpdateCtemp(FALSE, PtrTo(x))
          \/ /\ lastFetch' = "failed"
             /\ \E e \in FailureCodes :
                   IF e = 0 THEN UpdateCtempNullDeref ELSE UpdateCtemp(TRUE, Null)

PollInit ==
    /\ BridgeInit
    /\ CtorDone
    /\ DiscIdle
    /\ NameDone
    /\ LifeIdle
    /\ \E cap \in {"basic", "mi"} : PollIdle(cap)

PollNext == StartPolling \/ TimerFire \/ FetchComplete

PollSpec == PollInit /\ [][PollNext]_vars

\* ------------------------------------------------- NVMeSubsystem: discovery
SeqsUpTo(S, n) == UNION {[1..k -> S] : k \in 0..n}

\* controllers.find(id) != controllers.end()
Found(ctrls, id) == id \in Ids /\ ctrls[id].present

\* NVMeController::setSecAssoc(secCntrls): the Controller's association is
\* replaced by the given list (no argument: the empty list)
SetSecAssoc(cntrl, secCntrls) == [cntrl EXCEPT !.assoc = secCntrls]

\* some Controller of the map holds a non-empty association
AnyAssoc(ctrls) == \E c \in Ids : ctrls[c].present /\ ctrls[c].assoc # <<>>

\* the miScanCtrl call of start()
StartDiscovery ==
    /\ discPc \in {"idle", "done"}
    /\ starts < MaxStarts
    /\ starts' = starts + 1
    /\ discPc' = "scanning"
    /\ identCtrl' = 0
    /\ lastScan' = <<>>
    /\ lastIdent' = NoIdent
    /\ discOutcome' = "none"
    /\ scanLog' = NoScanLog
    /\ hadAssoc' = FALSE
    /\ UNCHANGED controllers
    /\ UNCHANGED <<bridgeVars, ctorVars, pollVars, nameVars, lifeVars>>

\* the for loop over ctrlList: the id is read from the handle, a Controller
\* is built from the handle and inserted under the id (std::map::insert
\* leaves an entry that is already there), and the entry's Controller is
\* started
RECURSIVE InsertLoop(_, _, _, _)
InsertLoop(ctrls, log, ctrlList, k) ==
    IF k > Len(ctrlList)
    THEN [ctrls |-> ctrls, log |-> log]
    ELSE LET index == ctrlList[k]
             isNew == ~ctrls[index].present
             ins == IF isNew
                    THEN [ctrls EXCEPT ![index] = [present |-> TRUE, assoc |-> <<>>]]
                    ELSE ctrls
             built == IF isNew THEN [log EXCEPT ![index].inserted = k] ELSE log
         IN InsertLoop(ins, [built EXCEPT ![index].started = @ + 1],
                       ctrlList, k + 1)

\* a scan callback that drops every association before it looks at its
\* arguments
ScanCallback_ClearOnAbort(ec, ctrlList) ==
    /\ discPc = "scanning"
    /\ lastScan' = ctrlList
    /\ hadAssoc' = AnyAssoc(controllers)
    /\ LET cleared == [c \in Ids |-> [controllers[c] EXCEPT !.assoc = <<>>]] IN
       IF ec \/ Len(ctrlList) = 0
       THEN /\ discPc' = "done"
            /\ discOutcome' = "scanAbort"
            /\ controllers' = cleared
            /\ UNCHANGED <<scanLog, identCtrl>>
       ELSE /\ LET r == InsertLoop(cleared, scanLog, ctrlList, 1) IN
                 controllers' = r.ctrls /\ scanLog' = r.log
            /\ identCtrl' = Len(ctrlList)
            /\ discPc' = "identifying"
            /\ discOutcome' = "scanned"
    /\ UNCHANGED <<starts, lastIdent>>
    /\ UNCHANGED <<bridgeVars, ctorVars, pollVars, nameVars, lifeVars>>

\* the callback of miScanCtrl
ScanCallback(ec, ctrlList) ==
    /\ discPc = "scanning"
    /\ lastScan' = ctrlList
    /\ hadAssoc' = AnyAssoc(controllers)
    /\ IF ec \/ Len(ctrlList) = 0
       THEN /\ discPc' = "done"
            /\ discOutcome' = "scanAbort"
            /\ UNCHANGED <<controllers, scanLog, identCtrl>>
       ELSE /\ LET r == InsertLoop(controllers, scanLog, ctrlList, 1) IN
                 controllers' = r.ctrls /\ scanLog' = r.log
            /\ identCtrl' = Len(ctrlList)
            /\ discPc' = "identifying"
            /\ discOutcome' = "scanned"
    /\ UNCHANGED <<starts, lastIdent>>
    /\ UNCHANGED <<bridgeVars, ctorVars, pollVars, nameVars, lifeVars>>

ScanDone ==
    \/ ScanCallback(TRUE, <<>>)
    \/ \E ctrlList \in SeqsUpTo(Ids, MaxScan) : ScanCallback(FALSE, ctrlList)

\* a loop that skips an scid that is not in the map and goes on
RECURSIVE SecLoop_SkipMissing(_, _, _)
SecLoop_SkipMissing(ctrls, resp, i) ==
    IF i > resp.num
    THEN <<>>
    ELSE (IF Found(ctrls, resp.scid[i]) THEN <<resp.scid[i]>> ELSE <<>>)
         \o SecLoop_SkipMissing(ctrls, resp, i + 1)

\* the loop over sc_entry[0 .. num-1]: the Controllers found, up to the
\* first scid that is not in the map
RECURSIVE SecLoop(_, _, _)
SecLoop(ctrls, resp, i) ==
    IF i > resp.num \/ ~Found(ctrls, resp.scid[i])
    THEN <<>>
    ELSE <<resp.scid[i]>> \o SecLoop(ctrls, resp, i + 1)

\* a callback that assigns the list to the last Controller found instead of
\* the primary
AssignSecondaries_ToLast(ctrls, resp) ==
    LET secCntrls == SecLoop(ctrls, resp, 1)
        tgt == IF secCntrls = <<>> THEN resp.pcid
               ELSE secCntrls[Len(secCntrls)] IN
    [ctrls EXCEPT ![tgt] = SetSecAssoc(@, secCntrls)]

\* findPrimary->second->setSecAssoc(secCntrls)
AssignSecondaries(ctrls, resp) ==
    [ctrls EXCEPT ![resp.pcid] = SetSecAssoc(@, SecLoop(ctrls, resp, 1))]

\* an identify callback that clears the associations only once it has found
\* a primary to assign to
IdentifyCallback_DecideFirst(resp) ==
    /\ discPc = "identifying"
    /\ discPc' = "done"
    /\ lastIdent' = resp
    /\ hadAssoc' = AnyAssoc(controllers)
    /\ IF resp.ec \/ ~resp.sizeOk
       THEN /\ discOutcome' = "identAbort"
            /\ UNCHANGED controllers
       ELSE LET cleared == [c \in Ids |->
                              IF controllers[c].present
                              THEN SetSecAssoc(controllers[c], <<>>)
                              ELSE controllers[c]]
            IN IF resp.num = 0
               THEN /\ discOutcome' = "emptyList"
                    /\ UNCHANGED controllers
               ELSE IF ~Found(controllers, resp.pcid)
               THEN /\ discOutcome' = "noPrimary"
                    /\ UNCHANGED controllers
               ELSE /\ discOutcome' = "assigned"
                    /\ controllers' = AssignSecondaries(cleared, resp)
    /\ UNCHANGED <<starts, scanLog, identCtrl, lastScan>>
    /\ UNCHANGED <<bridgeVars, ctorVars, pollVars, nameVars, lifeVars>>

\* the callback of adminIdentify (secondary controller list)
IdentifyCallback(resp) ==
    /\ discPc = "identifying"
    /\ discPc' = "done"
    /\ lastIdent' = resp
    /\ hadAssoc' = AnyAssoc(controllers)
    /\ IF resp.ec \/ ~resp.sizeOk
       THEN /\ discOutcome' = "identAbort"
            /\ UNCHANGED controllers
       ELSE LET cleared == [c \in Ids |->
                              IF controllers[c].present
                              THEN SetSecAssoc(controllers[c], <<>>)
                              ELSE controllers[c]]
            IN IF resp.num = 0
               THEN /\ discOutcome' = "emptyList"
                    /\ controllers' = cleared
               ELSE IF ~Found(cleared, resp.pcid)
               THEN /\ discOutcome' = "noPrimary"
                    /\ controllers' = cleared
               ELSE /\ discOutcome' = "assigned"
                    /\ controllers' = AssignSecondaries(cleared, resp)
    /\ UNCHANGED <<starts, scanLog, identCtrl, lastScan>>
    /\ UNCHANGED <<bridgeVars, ctorVars, pollVars, nameVars, lifeVars>>

\* the ids a response may name: those a scan can return and one that no
\* scan returns
RespIds == 1..(MaxId + 1)

\* responses: an error, a payload shorter than the header, or a list whose
\* num entries name scid[1..num] and whose first entry names pcid (the code
\* reads nothing else of the payload); num is within the array
IdentifyResponses ==
    {[NoIdent EXCEPT !.ec = TRUE], NoIdent}
    \cup {[ec |-> FALSE, sizeOk |-> TRUE, num |-> Len(sc), pcid |-> p, scid |-> sc] :
            p \in RespIds, sc \in SeqsUpTo(RespIds, SecCap)}

IdentifyDone == \E resp \in IdentifyResponses : IdentifyCallback(resp)

DiscInit ==
    BridgeInit /\ CtorDone /\ PollIdle("mi") /\ DiscIdle /\ NameDone /\ LifeIdle

DiscNext == StartDiscovery \/ ScanDone \/ IdentifyDone

DiscSpec == DiscInit /\ [][DiscNext]_vars

\* ----------------------------------------------- NVMeSubsystem: sensor name
\* A reverse iterator is the number r of characters behind it, counted from
\* the tail: it points at p[Len(p) - r], and it is rend when r = Len(p).

\* while (rbegin != rend && *rbegin == '/') rbegin++
RECURSIVE SkipSlashes(_, _)
SkipSlashes(p, r) ==
    IF r < Len(p) /\ p[Len(p) - r] = "/" THEN SkipSlashes(p, r + 1) ELSE r

\* while (rbegin != rend && *rbegin != '/') rbegin++
RECURSIVE SkipWord(_, _)
SkipWord(p, r) ==
    IF r < Len(p) /\ p[Len(p) - r] # "/" THEN SkipWord(p, r + 1) ELSE r

\* extractOneFromTail(rbegin, rend): the optional word, and where rbegin is
\* left
ExtractOneFromTail(p, rbegin) ==
    LET r1 == SkipSlashes(p, rbegin) IN
    IF r1 = Len(p)
    THEN [name |-> None, rbegin |-> r1]
    ELSE LET r2 == SkipWord(p, r1 + 1) IN
         IF r2 = Len(p)
         THEN [name |-> None, rbegin |-> r2]
         ELSE [name |-> Some(SubSeq(p, Len(p) - r2 + 1, Len(p) - r1)),
               rbegin |-> r2]

\* createSensorNameFromPath(path)
CreateSensorNameFromPath(p) ==
    IF p = <<>>
    THEN None
    ELSE LET nvme == ExtractOneFromTail(p, 0)
             prod == ExtractOneFromTail(p, nvme.rbegin)
             board == ExtractOneFromTail(p, prod.rbegin)
         IN IF nvme.name = None \/ prod.name = None \/ board.name = None
               \/ board.name # Some(Board)
            THEN None
            ELSE Some(prod.name[1] \o <<"_">> \o nvme.name[1])

\* the pieces paths are put together from, and the paths
Pieces == {<<"/">>, Board, <<"p">>, <<"d">>}

RECURSIVE Concat(_)
Concat(ps) == IF ps = <<>> THEN <<>> ELSE Head(ps) \o Concat(Tail(ps))

Paths == {Concat(ps) : ps \in SeqsUpTo(Pieces, MaxPieces)}

\* the constructor of NVMeSubsystem derives the sensor name from the path
CreateSensorName ==
    /\ sensorName = <<>>
    /\ sensorName' = <<CreateSensorNameFromPath(path)>>
    /\ UNCHANGED path
    /\ UNCHANGED <<bridgeVars, ctorVars, pollVars, discVars, lifeVars>>

NameInit ==
    /\ BridgeInit
    /\ CtorDone
    /\ PollIdle("mi")
    /\ DiscIdle
    /\ path \in Paths
    /\ sensorName = <<>>
    /\ LifeIdle

NameNext == CreateSensorName

NameSpec == NameInit /\ [][NameNext]_vars

\* ------------------------------------------------- NVMeMi: shared ownership
\* the foreground drops one of its owning references; the one that drops the
\* last runs ~NVMeMi
ReleaseRef ==
    /\ fpc = "idle"
    /\ fgRefs > 0
    /\ fgRefs' = fgRefs - 1
    /\ dtorThread' =
         IF RefCount(fgRefs - 1, workerIO, cur, destroying, fgQueue) = 0
         THEN "fg" ELSE dtorThread
    /\ UNCHANGED destroying
    /\ UNCHANGED <<bridgeVars, ctorVars, pollVars, discVars, nameVars>>

\* workerIO.run() invokes one queued closure; the closure object, with its
\* self, outlives the call
InvokeHandler ==
    /\ wpc = "run"
    /\ ~ioStopped
    /\ workerIO # <<>>
    /\ destroying = 0
    /\ ExecHandler(Head(workerIO))
    /\ workerIO' = Tail(workerIO)
    /\ destroying' = Head(workerIO)
    /\ UNCHANGED <<workerStop, mtx, ioStopped, wpc, fpc, cur, dpc, fgErrno,
                   nCalls, epClosed>>
    /\ UNCHANGED <<fgRefs, dtorThread>>
    /\ UNCHANGED <<ctorVars, pollVars, discVars, nameVars>>

\* workerIO.run() destroys the closure it invoked, on the worker thread: self
\* is released, and if it was the last owning reference ~NVMeMi runs there
DestroyHandler ==
    /\ destroying # 0
    /\ destroying' = 0
    /\ IF RefCount(fgRefs, workerIO, cur, 0, fgQueue) = 0
       THEN /\ dtorThread' = "worker"
            /\ wpc' = "dtor"
       ELSE UNCHANGED <<dtorThread, wpc>>
    /\ UNCHANGED fgRefs
    /\ UNCHANGED <<workerStop, mtx, workerIO, ioStopped, fpc, cur, fgQueue, dpc,
                   workerErrno, fgErrno, calls, nCalls, epClosed>>
    /\ UNCHANGED <<ctorVars, pollVars, discVars, nameVars>>

\* ~NVMeMi on the worker thread: workerStop = true, then the lock and
\* notify_all (nobody waits: the one waiter is the thread running this)
WorkerDtorShutdown ==
    /\ wpc = "dtor"
    /\ mtx = "none"
    /\ workerStop' = TRUE
    /\ wpc' = "dtor_join"
    /\ UNCHANGED <<mtx, workerIO, ioStopped, fpc, cur, fgQueue, dpc,
                   workerErrno, fgErrno, calls, nCalls, epClosed>>
    /\ UNCHANGED <<ctorVars, pollVars, discVars, nameVars, lifeVars>>

\* ~NVMeMi on the worker thread: thread.join() on the calling thread fails
\* with resource_deadlock_would_occur; the exception leaves a destructor and
\* the process is terminated
WorkerDtorJoin ==
    /\ wpc = "dtor_join"
    /\ wpc' = "terminated"
    /\ UNCHANGED <<workerStop, mtx, workerIO, ioStopped, fpc, cur, fgQueue, dpc,
                   workerErrno, fgErrno, calls, nCalls, epClosed>>
    /\ UNCHANGED <<ctorVars, pollVars, discVars, nameVars, lifeVars>>

\* the endpoint with its owners: calls need an owning reference, ~NVMeMi runs
\* on the thread that dropped the last one
LifeNext ==
    \/ (fgRefs > 0 /\ MiSubsystemHealthStatusPoll)
    \/ (fgRefs > 0 /\ MiScanCtrl)
    \/ PostCheck1
    \/ PostLock
    \/ PostCheck2
    \/ PostEnqueue
    \/ FgRun
    \/ (wpc # "terminated" /\ FgOther)
    \/ ReleaseRef
    \/ InvokeHandler
    \/ DestroyHandler
    \/ (destroying = 0 /\ WorkerRunReturn)
    \/ WorkerRestart
    \/ WorkerWait
    \/ SpuriousWake
    \/ WorkerWake
    \/ WorkerCheckStop
    \/ WorkerExit
    \/ WorkerDtorShutdown
    \/ WorkerDtorJoin
    \/ (dtorThread = "fg" /\ DtorSetStop)
    \/ (dtorThread = "fg" /\ DtorNotify)
    \/ (dtorThread = "fg" /\ DtorJoin)
    \/ (dtorThread = "fg" /\ DtorClose)

LifeSpec == Init /\ [][LifeNext]_vars

\* ------------------------------------------------------------------ claims
Accepted(id) == calls[id].st \in {"queued", "executed"}

\* C1: once the stop flag is set no post enqueues work: no handler is ever
\* put on workerIO while workerStop is true.
C1_NoEnqueueAfterStop ==
    \A id \in CallIds : Accepted(id) => ~calls[id].enqStop

\* C2: destroying the endpoint always terminates: once the destructor has
\* requested shutdown, its join returns and it completes.
C2_DestructorTerminates == (dpc # "idle") ~> (dpc = "done")

\* C3: work enqueued by a post made before shutdown is eventually executed
\* by the worker, with no later post or shutdown request needed.
C3_AcceptedWorkRuns ==
    \A id \in CallIds :
        (calls[id].st = "queued" /\ ~calls[id].enqStop)
            ~> (calls[id].st = "executed")

\* C4: when the worker thread has exited, every unit of work that post
\* accepted has been executed by it and none is left on workerIO.
C4_DrainedBeforeExit ==
    wpc = "exited" =>
        /\ workerIO = <<>>
        /\ \A id \in CallIds : calls[id].st # "queued"

C4_Witness ==
    /\ wpc = "exited"
    /\ \E id \in CallIds : calls[id].st = "executed" /\ calls[id].tcAt = "drain"

\* C5: the callback of every miScanCtrl / miSubsystemHealthStatusPoll call is
\* invoked, and never more than once.
C5_CallbackExactlyOnce ==
    /\ [](\A id \in CallIds : calls[id].cbCount <= 1)
    /\ \A id \in CallIds : (calls[id].kind # "none") ~> (calls[id].cbCount = 1)

\* C6: a failed fetch never ends the loop: the handler that completes a
\* failed fetch leaves the process alive, the timer armed for the next fetch
\* and the Sensor marked non-functional.
C6_FailedFetchRearms ==
    lastFetch = "failed" => (~crashed /\ timerWaits = 1 /\ ~ctemp.functional)

\* the set of ids in a Controller's association
AssocSet(c) == {controllers[c].assoc[k] : k \in 1..Len(controllers[c].assoc)}

\* the ids the last identify response names as secondaries
NamedSecondaries == {lastIdent.scid[k] : k \in 1..lastIdent.num}

\* a Controller is a secondary of p when p's association holds it
SecondaryOf(c, p) == Found(controllers, p) /\ c \in AssocSet(p)

\* the last identify response is well formed (num within the array) and
\* names a primary and secondaries that are all in the Controller map
AllNamedFound ==
    /\ discPc = "done"
    /\ discOutcome \in {"emptyList", "noPrimary", "assigned"}
    /\ lastIdent.num >= 1
    /\ Found(controllers, lastIdent.pcid)
    /\ \A c \in NamedSecondaries : Found(controllers, c)

\* C10: after a pass whose identify response names a primary and secondaries
\* S that are all in the map, the primary holds exactly S, every Controller
\* of S is a secondary of the primary, and no other association exists.
C10_PrimaryHoldsSecondaries ==
    AllNamedFound =>
        /\ discOutcome = "assigned"
        /\ AssocSet(lastIdent.pcid) = NamedSecondaries
        /\ \A c \in NamedSecondaries : SecondaryOf(c, lastIdent.pcid)
        /\ \A c \in Ids \ {lastIdent.pcid} : controllers[c].assoc = <<>>

\* the scenario of the text on two controllers: ids {1,2}, pcid 1, scid {2}
C10_Witness ==
    /\ AllNamedFound
    /\ lastScan = <<1, 2>>
    /\ lastIdent.pcid = 1
    /\ lastIdent.scid = <<2>>
    /\ controllers[1].assoc = <<2>>
    /\ SecondaryOf(2, 1)

\* C7 as stated: five failed SetupEndpoint attempts make construction fail
\* (the fifth failure is the fatal one).
C7_FifthFailureFatal == failures >= 5 => cpc = "threw"

\* C7 as amended: the sixth failed SetupEndpoint attempt is the fatal one, the
\* first five are only logged and retried; whenever the constructor throws no
\* worker thread has been started.
C7_SixthFailureFatal ==
    /\ failures <= RetryLimit + 1
    /\ (threw = "setup") <=> (failures = RetryLimit + 1)
    /\ failures <= RetryLimit => (threw # "setup" /\ ctorI = failures)
    /\ cpc = "threw" => (threw # "none" /\ wpc = "none")
    /\ wpc # "none" => (cpc = "constructed" /\ nvmeEP)

C7_Witness ==
    /\ cpc = "threw"
    /\ threw = "setup"
    /\ failures = RetryLimit + 1
    /\ wpc = "none"

\* C8: the callback of a health status poll whose transport call failed on
\* the worker carries the errno the worker saw, never success.
C8_FailureReportedAsError ==
    \A id \in CallIds :
        (calls[id].kind = "poll" /\ calls[id].rcErrno # 0 /\ calls[id].cbCount > 0)
            => (calls[id].cbEc # 0 /\ calls[id].cbEc = calls[id].rcErrno)

\* C9: transport calls run on the worker thread only; callbacks run on the
\* foreground context only, as posted handlers: never on the worker, never
\* inside the call that submitted the operation.
C9_ThreadAffinity ==
    /\ \A id \in CallIds :
          /\ calls[id].tcThread \in {"none", "worker"}
          /\ calls[id].cbThread \in {"none", "fg"}
          /\ ~calls[id].cbInline
          /\ calls[id].st = "executed" => calls[id].tcThread = "worker"
          /\ id = cur => calls[id].cbCount = 0

C9_Witness ==
    \E id \in CallIds :
        /\ calls[id].tcThread = "worker"
        /\ calls[id].cbThread = "fg"
        /\ calls[id].cbData

\* the Controllers that hold a non-empty association (the primaries)
Primaries == {c \in Ids : controllers[c].present /\ controllers[c].assoc # <<>>}

\* C11: at most one Controller holds a non-empty association, and no
\* Controller is both a primary and a member of a secondary set, its own
\* included, whatever the identify response.
C11_SinglePrimaryRoles ==
    /\ Cardinality(Primaries) <= 1
    /\ \A p \in Primaries : \A q \in Primaries : p \notin AssocSet(q)

\* C12: an aborted discovery leaves the association state untouched: a scan
\* callback with an error or an empty list creates no Controller, issues no
\* identify and changes no association; an identify callback with an error
\* or a payload shorter than the header changes no association.
C12_AbortLeavesAssociations ==
    [][/\ (discPc = "scanning" /\ discPc' # "scanning" /\ lastScan' = <<>>)
            => (controllers' = controllers /\ identCtrl' = 0 /\ discPc' = "done")
       /\ (discPc = "identifying" /\ discPc' # "identifying"
             /\ (lastIdent'.ec \/ ~lastIdent'.sizeOk))
            => controllers' = controllers]_vars

C12_Witness ==
    /\ discOutcome = "scanAbort"
    /\ lastScan = <<>>
    /\ hadAssoc
    /\ AnyAssoc(controllers)
    /\ identCtrl = 0

\* position in ctrlList of the last handle that carries id (0: none does)
LastIndex(ctrlList, id) ==
    LET S == {k \in 1..Len(ctrlList) : ctrlList[k] = id} IN
    IF S = {} THEN 0 ELSE CHOOSE k \in S : \A j \in S : j <= k

\* C14: duplicate ids in one scan are last-write-wins: after the scan
\* callback of the first pass the map has one entry per scanned id, built
\* from the last handle that carries the id, and started exactly once.
C14_LastWriteWins ==
    (discPc = "identifying" /\ starts = 1) =>
        \A id \in Ids :
            /\ controllers[id].present <=> LastIndex(lastScan, id) # 0
            /\ scanLog[id].inserted = LastIndex(lastScan, id)
            /\ scanLog[id].started = IF controllers[id].present THEN 1 ELSE 0

\* position in the last response of the first scid that is not in the map
\* (num + 1: every scid is in the map)
FirstMissing ==
    LET M == {k \in 1..lastIdent.num : ~Found(controllers, lastIdent.scid[k])} IN
    IF M = {} THEN lastIdent.num + 1 ELSE CHOOSE k \in M : \A j \in M : k <= j

\* C15: partial secondary lists are kept: the primary is assigned exactly the
\* scids that precede the first one missing from the map, in order; later
\* entries are ignored even if they are in the map; no other Controller
\* holds an association and no Controller is removed.
C15_PartialListKept ==
    discOutcome = "assigned" =>
        /\ Found(controllers, lastIdent.pcid)
        /\ controllers[lastIdent.pcid].assoc
              = SubSeq(lastIdent.scid, 1, FirstMissing - 1)
        /\ \A c \in Ids \ {lastIdent.pcid} : controllers[c].assoc = <<>>
        /\ \A k \in 1..Len(lastScan) : controllers[lastScan[k]].present

C15_Witness ==
    /\ discOutcome = "assigned"
    /\ lastScan = <<1, 2>>
    /\ lastIdent.pcid = 1
    /\ lastIdent.scid = <<2, 3>>
    /\ FirstMissing = 2
    /\ controllers[1].assoc = <<2>>

\* C20: the rebuild clears before it decides: after an identify callback
\* handed no error and a full header whose count is zero or whose primary id
\* is not in the map, every Controller holds an empty association.
C20_ClearedBeforeDecision ==
    (/\ discPc = "done"
     /\ ~lastIdent.ec
     /\ lastIdent.sizeOk
     /\ (lastIdent.num = 0 \/ ~Found(controllers, lastIdent.pcid)))
        => (/\ discOutcome \in {"emptyList", "noPrimary"}
            /\ \A c \in Ids : controllers[c].assoc = <<>>)

C20_Witness ==
    /\ discPc = "done"
    /\ discOutcome = "noPrimary"
    /\ lastIdent.num >= 1
    /\ ~Found(controllers, lastIdent.pcid)
    /\ hadAssoc
    /\ ~AnyAssoc(controllers)

\* bit 5 (0x20, drive functional) of an NSS byte is set
DriveFunctional(nss) == (nss \div 32) % 2 = 1

\* C13: when a health poll succeeds and its status has the drive functional
\* bit clear, the handler adds exactly 1 to the Sensor's error counter,
\* calls no other Sensor operation (value, functional and available are as
\* before) and re-arms the timer.
C13_NoValueCycle ==
    [][(/\ capability = "mi"
        /\ fetches' = fetches - 1
        /\ lastFetch' = "ok"
        /\ lastData' # Null
        /\ ~DriveFunctional(lastData'[1].nss))
          => (/\ ctemp' = [ctemp EXCEPT !.errCount = @ + 1]
              /\ sensorCalls' = <<"incrementError">>
              /\ timerWaits' = 1
              /\ fetches' = 0
              /\ ~crashed')]_vars

C13_Witness ==
    /\ capability = "mi"
    /\ lastOutcome = "noValue"
    /\ lastFetch = "ok"
    /\ lastData # Null
    /\ ~DriveFunctional(lastData[1].nss)
    /\ ctemp.errCount = 1
    /\ ctemp.value = Num(30)
    /\ ctemp.functional
    /\ timerWaits = 1

\* what a temperature byte stands for: 0x80 and 0x81 are not-a-number, any
\* other byte is its value as a signed byte
ExpectedReading(b) ==
    IF b \in {128, 129} THEN NaN ELSE Num(IF b < 128 THEN b ELSE b - 256)

\* C16: after a successful fetch the basic parser has stored the expected
\* reading of the status' temperature byte; the management parser has
\* stored the expected reading of the composite temperature when the drive
\* functional bit is set and has yielded no value when it is clear.
C16_SentinelParsing ==
    lastFetch = "ok" =>
        IF capability = "basic"
        THEN IF lastData = Null
             THEN lastOutcome = "noValue"
             ELSE /\ lastOutcome = "value"
                  /\ ctemp.value = ExpectedReading(lastData[1].Temp)
        ELSE IF ~DriveFunctional(lastData[1].nss)
             THEN lastOutcome = "noValue"
             ELSE /\ lastOutcome = "value"
                  /\ ctemp.value = ExpectedReading(lastData[1].ctemp)

C16_Witness ==
    /\ capability = "mi"
    /\ lastFetch = "ok"
    /\ lastOutcome = "value"
    /\ lastData[1].nss = 63
    /\ lastData[1].ctemp = 129
    /\ ctemp.value = NaN

\* C18: the loop has exactly one activity in flight: between two handlers,
\* once started and until a timer handler is cancelled, the process is alive
\* and exactly one timer wait or one fetch is pending, so every firing is
\* followed by one re-arm, made once its fetch (if any) has completed; a
\* cancelled firing leaves no wait, no fetch and calls nothing on the Sensor.
C18_OneActivityInFlight ==
    /\ (started /\ lastOutcome # "aborted")
          => (~crashed /\ timerWaits + fetches = 1)
    /\ lastOutcome = "aborted"
          => (timerWaits = 0 /\ fetches = 0 /\ sensorCalls = <<>>)

\* C19: a fetch is outstanding only if the timer handler that issued it was
\* handed no error, the Sensor exists, readingStateGood() returned true and
\* then sample() returned true; when readingStateGood() returned false the
\* handler marked the Sensor unavailable, pushed not-a-number and called
\* neither sample() nor the fetcher; a handler handed an error other than
\* cancellation calls nothing on the Sensor and leaves it as it was.
C19_FetchConditions ==
    /\ [](/\ fetches > 0
              => (/\ lastFire = [errorCode |-> "ok", good |-> Some(TRUE),
                                 smp |-> Some(TRUE)]
                  /\ ctemp.present)
          /\ lastFire.good = Some(FALSE)
              => (/\ sensorCalls = <<"readingStateGood", "markAvailable",
                                     "updateValue">>
                  /\ lastFire.smp = None
                  /\ ~ctemp.available
                  /\ ctemp.value = NaN
                  /\ fetches = 0
                  /\ timerWaits = 1)
          /\ lastFire.errorCode = "error"
              => (sensorCalls = <<>> /\ fetches = 0 /\ timerWaits = 1))
    /\ [][lastFire'.errorCode = "error" => ctemp' = ctemp]_vars

C19_Witness ==
    /\ lastFire = [errorCode |-> "ok", good |-> Some(FALSE), smp |-> None]
    /\ lastOutcome = "notGood"
    /\ ~ctemp.available
    /\ ctemp.value = NaN
    /\ ctemp.errCount = 1
    /\ fetches = 0
    /\ timerWaits = 1

\* the non-empty segments of a path, in order
RECURSIVE Segments(_, _)
Segments(p, word) ==
    IF p = <<>>
    THEN (IF word = <<>> THEN <<>> ELSE <<word>>)
    ELSE IF Head(p) = "/"
         THEN (IF word = <<>> THEN <<>> ELSE <<word>>) \o Segments(Tail(p), <<>>)
         ELSE Segments(Tail(p), Append(word, Head(p)))

\* the name a path stands for: P_D when its last three non-empty segments
\* are board, P, D; no value otherwise
ExpectedName(p) ==
    LET segs == Segments(p, <<>>)
        n == Len(segs) IN
    IF n >= 3 /\ segs[n - 2] = Board
    THEN Some(segs[n - 1] \o <<"_">> \o segs[n])
    ELSE None

\* C17: createSensorNameFromPath returns P_D for every path whose last three
\* non-empty segments are board, P, D (repeated or trailing '/' ignored,
\* board being the first segment included), and no value for every other
\* path.
C17_NameDeriver ==
    sensorName # <<>> => sensorName[1] = ExpectedName(path)

\* C21: ~NVMeMi, which joins the worker thread, is never run by the worker
\* thread itself: the last owning reference to the endpoint is never the
\* self a closure releases on the worker thread, however the foreground
\* releases its own references while work is queued or running
C21_DtorNeverOnWorker == dtorThread # "worker"

====
